---- MODULE Spec2Model ----
(***************************************************************************)
(* craft_archives.repo.apt_sources_manager: the apt source synchronizer.   *)
(*                                                                         *)
(* Text is modelled as a sequence of indivisible chunks of characters      *)
(* (atoms): "a/b" is <<"a", "/", "b">>.  Concatenation is \o, so what the  *)
(* code builds with f-strings, " ".join and print is built here the same   *)
(* way, chunk by chunk.  An Optional[...] value is the empty set (None) or *)
(* a one-element set holding the value.                                    *)
(***************************************************************************)
EXTENDS Integers, Sequences, FiniteSets, TLC

VARIABLES
    files,        \* the sources directory: file name -> text of the file
    keyrings,     \* the keyring paths that exist as regular files
    hostArch,     \* utils.get_host_architecture()
    codename,     \* distro.codename()
    batch,        \* the descriptors the caller installs, in order
    idx,          \* position of the caller in the batch (1-based)
    run,          \* how many times the caller has started this batch
    anyChanged,   \* the caller's accumulated "changed" flag of this run
    pc,           \* where the control is: see the actions
    ret,          \* return value of the invocation that returned
    err,          \* exception of the invocation that raised ("" when none)
    archIdx,      \* position of _add_architecture in its loop
    events,       \* files read/written and subprocesses run in this run of the batch
    files0,       \* the sources directory when the current invocation began
    filesB,       \* the sources directory when this run of the batch began
    call,         \* what the current invocation computed (see Outcome)
    prev,         \* summary of the previous finished invocation
    prevRun       \* summary of the previous run of the batch

vars == <<files, keyrings, hostArch, codename, batch, idx, run, anyChanged, pc,
          ret, err, archIdx, events, files0, filesB, call, prev, prevRun>>

\* ------------------------------------------------------------------ bounds

MaxBatch == 2     \* longest batch of descriptors
MaxRuns == 2      \* times the caller runs the same batch

\* ------------------------------------------------------------ Optional, text

None == {}
Some(v) == {v}
Val(o) == CHOOSE v \in o : TRUE
\* Python truthiness of an Optional[str] or Optional[List[str]]:
\* None, "" and [] are all false.
Truthy(o) == o # {} /\ Val(o) # <<>>

RECURSIVE Join(_, _)
\* sep.join(list): list is a sequence of texts.
Join(list, sep) ==
    IF list = <<>> THEN <<>>
    ELSE IF Len(list) = 1 THEN list[1]
    ELSE list[1] \o sep \o Join(Tail(list), sep)

\* print(f"{field}{text}", file=deb822): the line and its newline.
PrintLine(field, text) == <<field>> \o text \o <<"\n">>

\* str.endswith("/")
EndsWithSlash(s) == s # <<>> /\ s[Len(s)] = "/"

\* Position of the first "/" of s, 0 when there is none.
FirstSlash(s) == IF \E i \in 1..Len(s) : s[i] = "/" THEN CHOOSE i \in 1..Len(s) : s[i] = "/" /\ \A j \in 1..(i-1) : s[j] # "/" ELSE 0

\* ------------------------------------------------------------ descriptors

Descriptor(type, name, url, key_id, path, components, suites, formats, architectures, ppa, cloud, pocket) ==
    [type |-> type, name |-> name, url |-> url, key_id |-> key_id, path |-> path,
     components |-> components, suites |-> suites, formats |-> formats,
     architectures |-> architectures, ppa |-> ppa, cloud |-> cloud, pocket |-> pocket]

PackageRepositoryApt(name, key_id, path, components, suites, formats, architectures) ==
    Descriptor("apt", name, <<"http://test.url/ubuntu">>, key_id, path, components, suites, formats, architectures, <<>>, <<>>, <<>>)

PackageRepositoryAptPPA(ppa) ==
    Descriptor("ppa", <<>>, <<>>, <<>>, None, None, None, None, None, ppa, <<>>, <<>>)

PackageRepositoryAptUCA(cloud, pocket) ==
    Descriptor("uca", <<>>, <<>>, <<>>, None, None, None, None, None, <<>>, cloud, pocket)

\* ------------------------------------------------------ external resolvers

KEY_A == <<"AAAAAAAA">>
KEY_B == <<"BBBBBBBB">>
PPA_KEY == <<"FAKE-PPA-SIGNING-KEY">>
UCA_KEY_ID == <<"EC4926EA">>
UCA_ARCHIVE == <<"http://ubuntu-cloud.archive.canonical.com/ubuntu">>

\* apt_key_manager.get_keyring_path(key_id, base_path=keyrings_dir)
get_keyring_path(key_id) == <<"/keyrings/craft-">> \o key_id \o <<".gpg">>

\* apt_ppa.split_ppa_parts(ppa=...): <<ok, owner, name>>; fails without a
\* separating slash.
split_ppa_parts(ppa) ==
    LET i == FirstSlash(ppa)
    IN IF i = 0 THEN [ok |-> FALSE, owner |-> <<>>, name |-> <<>>]
       ELSE [ok |-> TRUE, owner |-> SubSeq(ppa, 1, i - 1), name |-> SubSeq(ppa, i + 1, Len(ppa))]

\* apt_ppa.get_launchpad_ppa_key_id(ppa=...)
get_launchpad_ppa_key_id(ppa) == PPA_KEY \o <<"-">> \o ppa

\* The (codename, cloud, pocket) combinations the cloud archive serves.
RELEASE_TO_CLOUD ==
    {<<<<"focal">>, <<"wallaby">>, <<"updates">>>>,
     <<<<"jammy">>, <<"antelope">>, <<"updates">>>>}

\* apt_uca.check_release_compatibility(codename, cloud, pocket): TRUE when it
\* returns, FALSE when it raises.
check_release_compatibility(cn, cloud, pocket) == <<cn, cloud, pocket>> \in RELEASE_TO_CLOUD

\* ----------------------------------------------------------------- render

\* _construct_deb822_source printing Components whenever the list is set,
\* an empty one too.
_construct_deb822_source_set_components(architectures, components, formats, suites, url, signed_by) ==
    LET type_text == IF Truthy(formats) THEN Join(Val(formats), <<" ">>) ELSE <<"deb">>
        suites_text == Join(suites, <<" ">>)
        arch_text == IF Truthy(architectures) THEN Join(Val(architectures), <<" ">>) ELSE hostArch
    IN PrintLine("Types: ", type_text)
       \o PrintLine("URIs: ", url)
       \o PrintLine("Suites: ", suites_text)
       \o (IF components # None THEN PrintLine("Components: ", Join(Val(components), <<" ">>)) ELSE <<>>)
       \o PrintLine("Architectures: ", arch_text)
       \o PrintLine("Signed-By: ", signed_by)

_construct_deb822_source(architectures, components, formats, suites, url, signed_by) ==
    LET type_text == IF Truthy(formats) THEN Join(Val(formats), <<" ">>) ELSE <<"deb">>
        suites_text == Join(suites, <<" ">>)
        arch_text == IF Truthy(architectures) THEN Join(Val(architectures), <<" ">>) ELSE hostArch
    IN PrintLine("Types: ", type_text)
       \o PrintLine("URIs: ", url)
       \o PrintLine("Suites: ", suites_text)
       \o (IF Truthy(components) THEN PrintLine("Components: ", Join(Val(components), <<" ">>)) ELSE <<>>)
       \o PrintLine("Architectures: ", arch_text)
       \o PrintLine("Signed-By: ", signed_by)

\* ------------------------------------------------------------ synchronize

Event(op, file, text) == [op |-> op, file |-> file, text |-> text]

\* The keyword arguments of a call of _install_sources.
Kwargs(architectures, components, formats, name, suites, url, keyring_path) ==
    [architectures |-> architectures, components |-> components, formats |-> formats,
     name |-> name, suites |-> suites, url |-> url, keyring_path |-> keyring_path]

NoKwargs == Kwargs(None, None, None, <<>>, <<>>, <<>>, <<>>)

\* What a call leaves behind: the exception it raised ("" when it returned),
\* its return value, the directory after it, what it did to files, in order,
\* whether _install_sources was called and with what, and the text rendered.
Outcome(e, changed, dir, ev, called, kw, config) ==
    [err |-> e, changed |-> changed, files |-> dir, ev |-> ev, called |-> called, kw |-> kw, config |-> config]

\* An exception raised before _install_sources is called.
Raise(e, dir) == Outcome(e, FALSE, dir, <<>>, FALSE, NoKwargs, <<>>)

\* write_text as it would be with the file opened for appending.
write_text_append(dir, f, text) ==
    [g \in DOMAIN dir \cup {f} |-> IF g # f THEN dir[g] ELSE IF f \in DOMAIN dir THEN dir[f] \o text ELSE text]

\* pathlib.Path.write_text: create or overwrite.
write_text(dir, f, text) == [g \in DOMAIN dir \cup {f} |-> IF g = f THEN text ELSE dir[g]]

\* ConfigName without the reserved names: every name is prefixed.
ConfigName_prefix_all(name) == <<"craft-">> \o name \o <<".sources">>

\* The file name _install_sources derives from the record's name.
ConfigName(name) ==
    (IF name \notin {<<"default">>, <<"default-security">>} THEN <<"craft-">> \o name ELSE name) \o <<".sources">>

\* AlreadyInstalled without the comparison of the text.
AlreadyInstalled_exists(dir, config_path, config) == config_path \in DOMAIN dir

\* AlreadyInstalled comparing the text with the file's path.
AlreadyInstalled_never(dir, config_path, config) == config_path \in DOMAIN dir /\ dir[config_path] = config_path

\* config_path.exists() and config_path.read_text() == config
AlreadyInstalled(dir, config_path, config) == config_path \in DOMAIN dir /\ dir[config_path] = config

\* _install_sources with the keyring checked after the file is written.
_install_sources_late_check(kw, dir) ==
    LET config == _construct_deb822_source(kw.architectures, kw.components, kw.formats, kw.suites, kw.url, kw.keyring_path)
        config_path == ConfigName(kw.name)
        looked == <<Event("exists", config_path, <<>>)>>
                  \o (IF config_path \in DOMAIN dir THEN <<Event("read_text", config_path, <<>>)>> ELSE <<>>)
    IN IF AlreadyInstalled(dir, config_path, config)
       THEN Outcome("", FALSE, dir, looked, TRUE, kw, config)
       ELSE Outcome(IF kw.keyring_path \notin keyrings THEN "AptGPGKeyringError" ELSE "",
                    kw.keyring_path \in keyrings, write_text(dir, config_path, config),
                    looked \o <<Event("write_text", config_path, config)>>, TRUE, kw, config)

_install_sources(kw, dir) ==
    IF kw.keyring_path \notin keyrings THEN Outcome("AptGPGKeyringError", FALSE, dir, <<>>, TRUE, kw, <<>>)
    ELSE LET config == _construct_deb822_source(kw.architectures, kw.components, kw.formats, kw.suites, kw.url, kw.keyring_path)
             config_path == ConfigName(kw.name)
             looked == <<Event("exists", config_path, <<>>)>>
                       \o (IF config_path \in DOMAIN dir THEN <<Event("read_text", config_path, <<>>)>> ELSE <<>>)
         IN IF AlreadyInstalled(dir, config_path, config)
            THEN Outcome("", FALSE, dir, looked, TRUE, kw, config)
            ELSE Outcome("", TRUE, write_text(dir, config_path, config),
                         looked \o <<Event("write_text", config_path, config)>>, TRUE, kw, config)

\* AptSuites taking the path as it is.
AptSuites_no_slash(package_repo) ==
    IF ~Truthy(package_repo.path) /\ ~Truthy(package_repo.components) /\ ~Truthy(package_repo.suites)
    THEN [ok |-> TRUE, suites |-> << <<"/">> >>]
    ELSE IF Truthy(package_repo.path)
    THEN [ok |-> TRUE, suites |-> << Val(package_repo.path) >>]
    ELSE IF Truthy(package_repo.suites)
    THEN [ok |-> TRUE, suites |-> Val(package_repo.suites)]
    ELSE [ok |-> FALSE, suites |-> <<>>]

\* AptSuites without the bare-repository case.
AptSuites_no_bare(package_repo) ==
    IF Truthy(package_repo.path)
    THEN LET path == Val(package_repo.path)
         IN [ok |-> TRUE, suites |-> << IF ~EndsWithSlash(path) THEN path \o <<"/">> ELSE path >>]
    ELSE IF Truthy(package_repo.suites)
    THEN [ok |-> TRUE, suites |-> Val(package_repo.suites)]
    ELSE [ok |-> FALSE, suites |-> <<>>]

\* The suite list _install_sources_apt derives; ok is FALSE where it raises
\* RuntimeError("no suites or path").
AptSuites(package_repo) ==
    IF ~Truthy(package_repo.path) /\ ~Truthy(package_repo.components) /\ ~Truthy(package_repo.suites)
    THEN [ok |-> TRUE, suites |-> << <<"/">> >>]
    ELSE IF Truthy(package_repo.path)
    THEN LET path == Val(package_repo.path)
         IN [ok |-> TRUE, suites |-> << IF ~EndsWithSlash(path) THEN path \o <<"/">> ELSE path >>]
    ELSE IF Truthy(package_repo.suites)
    THEN [ok |-> TRUE, suites |-> Val(package_repo.suites)]
    ELSE [ok |-> FALSE, suites |-> <<>>]

\* The arguments _install_sources_apt passes on.
AptKwargs(package_repo, suites) ==
    Kwargs(package_repo.architectures, package_repo.components, package_repo.formats,
           package_repo.name, suites, package_repo.url, get_keyring_path(package_repo.key_id))

_install_sources_apt(package_repo, dir) ==
    LET s == AptSuites(package_repo)
    IN IF ~s.ok THEN Raise("RuntimeError", dir)
       ELSE _install_sources(AptKwargs(package_repo, s.suites), dir)

\* PpaKwargs passing the descriptor's architectures on.
PpaKwargs_own_architectures(package_repo, owner, name) ==
    Kwargs(package_repo.architectures, Some(<< <<"main">> >>), Some(<< <<"deb">> >>),
           <<"ppa-">> \o owner \o <<"_">> \o name,
           <<codename>>,
           <<"http://ppa.launchpad.net/">> \o owner \o <<"/">> \o name \o <<"/ubuntu">>,
           get_keyring_path(get_launchpad_ppa_key_id(package_repo.ppa)))

\* The arguments _install_sources_ppa passes on.
PpaKwargs(package_repo, owner, name) ==
    Kwargs(None, Some(<< <<"main">> >>), Some(<< <<"deb">> >>),
           <<"ppa-">> \o owner \o <<"_">> \o name,
           <<codename>>,
           <<"http://ppa.launchpad.net/">> \o owner \o <<"/">> \o name \o <<"/ubuntu">>,
           get_keyring_path(get_launchpad_ppa_key_id(package_repo.ppa)))

_install_sources_ppa(package_repo, dir) ==
    LET parts == split_ppa_parts(package_repo.ppa)
    IN IF ~parts.ok THEN Raise("AptPPAInstallError", dir)
       ELSE _install_sources(PpaKwargs(package_repo, parts.owner, parts.name), dir)

\* The arguments _install_sources_uca passes on.
UcaKwargs(package_repo) ==
    Kwargs(None, Some(<< <<"main">> >>), Some(<< <<"deb">> >>),
           <<"cloud-">> \o package_repo.cloud,
           << codename \o <<"-">> \o package_repo.pocket \o <<"/">> \o package_repo.cloud >>,
           UCA_ARCHIVE, get_keyring_path(UCA_KEY_ID))

_install_sources_uca(package_repo, dir) ==
    IF ~check_release_compatibility(codename, package_repo.cloud, package_repo.pocket)
    THEN Raise("AptUCAInstallError", dir)
    ELSE _install_sources(UcaKwargs(package_repo), dir)

\* install_package_repository_sources up to the point where it returns,
\* raises or enters _add_architecture.
Dispatch(package_repo, dir) ==
    IF package_repo.type = "ppa" THEN _install_sources_ppa(package_repo, dir)
    ELSE IF package_repo.type = "uca" THEN _install_sources_uca(package_repo, dir)
    ELSE IF package_repo.type = "apt" THEN _install_sources_apt(package_repo, dir)
    ELSE Raise("RuntimeError", dir)

\* Registers without the test of "changed".
Registers_unchanged_too(package_repo, changed) ==
    package_repo.type = "apt" /\ Truthy(package_repo.architectures)

\* "if changed and architectures" of install_package_repository_sources.
Registers(package_repo, changed) ==
    package_repo.type = "apt" /\ changed /\ Truthy(package_repo.architectures)

\* ------------------------------------------------------------------ inputs

PATHS == {None, Some(<<>>), Some(<<"dir", "/", "subdir">>), Some(<<"dir", "/">>)}
COMPONENTS == {None, Some(<<>>), Some(<< <<"main">>, <<"universe">> >>)}
SUITES == {None, Some(<<>>), Some(<< <<"test-suite1">>, <<"test-suite2">> >>)}
FORMATS == {None, Some(<< <<"deb">>, <<"deb-src">> >>)}
ARCHITECTURES == {None, Some(<<>>), Some(<< <<"amd64">>, <<"arm64">> >>)}
NAMES == {<<"default">>, <<"default-security">>, <<"defaults">>}

\* Plain descriptors, validated or not (the tests build UnvalidatedAptRepo).
AptRepos ==
    {PackageRepositoryApt(<<"http_test_url_ubuntu">>, KEY_A, p, c, s, f, a) :
        p \in PATHS, c \in COMPONENTS, s \in SUITES, f \in FORMATS, a \in ARCHITECTURES}
    \cup
    {PackageRepositoryApt(n, k, None, Some(<< <<"main">> >>), Some(<< <<"focal">> >>), None, a) :
        n \in NAMES, k \in {KEY_A, KEY_B}, a \in {None, Some(<< <<"i386">> >>)}}

\* PPA descriptors; the last one carries values in the fields a PPA
\* descriptor does not use.
PpaRepos ==
    {PackageRepositoryAptPPA(p) : p \in {<<"test", "/", "ppa">>, <<"deadsnakes", "/", "ppa">>, <<"ppa-missing-slash">>}}
    \cup
    {Descriptor("ppa", <<"default">>, <<"http://test.url/ubuntu">>, KEY_B, Some(<<"dir", "/">>),
                Some(<< <<"universe">> >>), Some(<< <<"test-suite1">> >>), Some(<< <<"deb">>, <<"deb-src">> >>),
                Some(<< <<"amd64">>, <<"arm64">> >>), <<"deadsnakes", "/", "ppa">>, <<"wallaby">>, <<"updates">>)}

UcaRepos == {PackageRepositoryAptUCA(c, <<"updates">>) : c \in {<<"wallaby">>, <<"antelope">>, <<"fake-cloud">>}}

Repos == AptRepos \cup PpaRepos \cup UcaRepos

\* The descriptors batches are made of: two Plain ones that share a name,
\* one of each failure, one of each variant.
BatchRepos ==
    {PackageRepositoryApt(<<"http_test_url_ubuntu">>, KEY_A, None, Some(<< <<"main">>, <<"universe">> >>), Some(<< <<"test-suite1">>, <<"test-suite2">> >>), None, Some(<< <<"amd64">>, <<"arm64">> >>)),
     PackageRepositoryApt(<<"http_test_url_ubuntu">>, KEY_A, Some(<<"dir", "/", "subdir">>), None, None, None, Some(<< <<"amd64">>, <<"arm64">> >>)),
     PackageRepositoryApt(<<"default">>, KEY_A, None, None, None, None, None),
     PackageRepositoryApt(<<"default">>, KEY_B, None, Some(<< <<"main">> >>), Some(<< <<"focal">> >>), None, None),
     PackageRepositoryAptPPA(<<"test", "/", "ppa">>),
     PackageRepositoryAptPPA(<<"ppa-missing-slash">>),
     PackageRepositoryAptUCA(<<"wallaby">>, <<"updates">>)}

Batches == {<<d>> : d \in Repos} \cup UNION {[1..n -> BatchRepos] : n \in 2..MaxBatch}

\* Every keyring the resolvers name, but the one of KEY_B.
InstalledKeyrings ==
    {get_keyring_path(KEY_A), get_keyring_path(UCA_KEY_ID)}
    \cup {get_keyring_path(get_launchpad_ppa_key_id(d.ppa)) : d \in PpaRepos}

\* A sources directory with files left by somebody else in it.
StaleNames ==
    {<<"craft-", "http_test_url_ubuntu", ".sources">>, <<"default", ".sources">>,
     <<"craft-", "default", ".sources">>, <<"craft-", "ppa-", "test", "_", "ppa", ".sources">>,
     <<"craft-", "cloud-", "wallaby", ".sources">>, <<"other", ".sources">>}

SourcesDirs == {[f \in {<<"other", ".sources">>} |-> <<"stale">>], [f \in StaleNames |-> <<"stale">>]}

\* --------------------------------------------------------------- history

Tag(ev, i) == [k \in 1..Len(ev) |-> [i |-> i, op |-> ev[k].op, file |-> ev[k].file, text |-> ev[k].text]]

\* The events of the invocation at position i of this run.
EventsOf(i) == SelectSeq(events, LAMBDA e : e.i = i)

Summary(valid, d, outcome, r, e, before, after, ev) ==
    [valid |-> valid, d |-> d, outcome |-> outcome, ret |-> r, err |-> e,
     files0 |-> before, files |-> after, events |-> ev]

RunSummary(valid, outcome, changed, dir, ev) ==
    [valid |-> valid, outcome |-> outcome, changed |-> changed, files |-> dir, events |-> ev]

\* ---------------------------------------------------------------- actions

Init ==
    /\ batch \in Batches
    /\ files \in SourcesDirs
    /\ keyrings \in {InstalledKeyrings, {}}
    /\ hostArch = <<"FAKE-HOST-ARCH">>
    /\ codename \in {<<"focal">>, <<"jammy">>}
    /\ idx = 1
    /\ run = 1
    /\ anyChanged = FALSE
    /\ pc = "idle"
    /\ ret = FALSE
    /\ err = ""
    /\ archIdx = 0
    /\ events = <<>>
    /\ files0 = files
    /\ filesB = files
    /\ call = Raise("", files)
    /\ prev = Summary(FALSE, batch[1], "", FALSE, "", files, files, <<>>)
    /\ prevRun = RunSummary(FALSE, "", FALSE, files, <<>>)

\* install_package_repository_sources(package_repo=batch[idx]), up to its
\* return, its exception or its call of _add_architecture.
Install ==
    /\ pc = "idle"
    /\ idx <= Len(batch)
    /\ LET r == Dispatch(batch[idx], files)
       IN /\ call' = r
          /\ files' = r.files
          /\ files0' = files
          /\ events' = events \o Tag(r.ev, idx)
          /\ err' = r.err
          /\ ret' = r.changed
          /\ archIdx' = 1
          /\ pc' = IF r.err # "" THEN "raised"
                   ELSE IF Registers(batch[idx], r.changed) THEN "registering"
                   ELSE "returned"
    /\ UNCHANGED <<keyrings, hostArch, codename, batch, idx, run, anyChanged, filesB, prev, prevRun>>

\* The call of dpkg for one architecture.
DpkgEvent(arch) == Event("dpkg --add-architecture", arch, <<>>)

\* _add_architecture: one turn of the loop, subprocess.run returning.
AddArchitecture ==
    /\ pc = "registering"
    /\ LET architectures == Val(batch[idx].architectures)
       IN /\ events' = events \o Tag(<<DpkgEvent(architectures[archIdx])>>, idx)
          /\ archIdx' = archIdx + 1
          /\ pc' = IF archIdx = Len(architectures) THEN "returned" ELSE "registering"
    /\ UNCHANGED <<files, keyrings, hostArch, codename, batch, idx, run, anyChanged, ret, err, files0, filesB, call, prev, prevRun>>

\* AddArchitectureFails with the written file put back as it was.
AddArchitectureFails_rollback ==
    /\ pc = "registering"
    /\ LET architectures == Val(batch[idx].architectures)
       IN events' = events \o Tag(<<DpkgEvent(architectures[archIdx])>>, idx)
    /\ files' = files0
    /\ err' = "CalledProcessError"
    /\ pc' = "raised"
    /\ UNCHANGED <<keyrings, hostArch, codename, batch, idx, run, anyChanged, ret, archIdx, files0, filesB, call, prev, prevRun>>

\* AddArchitectureFails with the failure raised only after dpkg was run for
\* the remaining architectures too.
AddArchitectureFails_continues ==
    /\ pc = "registering"
    /\ LET architectures == Val(batch[idx].architectures)
       IN events' = events \o Tag([k \in 1..(Len(architectures) - archIdx + 1) |-> DpkgEvent(architectures[archIdx + k - 1])], idx)
    /\ err' = "CalledProcessError"
    /\ pc' = "raised"
    /\ UNCHANGED <<files, keyrings, hostArch, codename, batch, idx, run, anyChanged, ret, archIdx, files0, filesB, call, prev, prevRun>>

\* _add_architecture: one turn of the loop, subprocess.run(check=True)
\* raising CalledProcessError.
AddArchitectureFails ==
    /\ pc = "registering"
    /\ LET architectures == Val(batch[idx].architectures)
       IN events' = events \o Tag(<<DpkgEvent(architectures[archIdx])>>, idx)
    /\ err' = "CalledProcessError"
    /\ pc' = "raised"
    /\ UNCHANGED <<files, keyrings, hostArch, codename, batch, idx, run, anyChanged, ret, archIdx, files0, filesB, call, prev, prevRun>>

CurrentSummary == Summary(TRUE, batch[idx], pc, ret, err, files0, files, EventsOf(idx))

\* The caller's loop: changed |= install_package_repository_sources(...),
\* then the next descriptor.
Return ==
    /\ pc = "returned"
    /\ anyChanged' = (anyChanged \/ ret)
    /\ idx' = idx + 1
    /\ pc' = IF idx = Len(batch) THEN "done" ELSE "idle"
    /\ prev' = CurrentSummary
    /\ UNCHANGED <<files, keyrings, hostArch, codename, batch, run, ret, err, archIdx, events, files0, filesB, call, prevRun>>

\* The caller's loop: the exception leaves it.
Abort ==
    /\ pc = "raised"
    /\ pc' = "failed"
    /\ prev' = CurrentSummary
    /\ UNCHANGED <<files, keyrings, hostArch, codename, batch, idx, run, anyChanged, ret, err, archIdx, events, files0, filesB, call, prevRun>>

\* The caller runs the same batch again.
Rerun ==
    /\ pc \in {"done", "failed"}
    /\ run < MaxRuns
    /\ run' = run + 1
    /\ idx' = 1
    /\ anyChanged' = FALSE
    /\ pc' = "idle"
    /\ err' = ""
    /\ events' = <<>>
    /\ filesB' = files
    /\ prevRun' = RunSummary(TRUE, pc, anyChanged, files, events)
    /\ UNCHANGED <<files, keyrings, hostArch, codename, batch, ret, archIdx, files0, call, prev>>

Next == Install \/ AddArchitecture \/ AddArchitectureFails \/ Return \/ Abort \/ Rerun

Spec == Init /\ [][Next]_vars

\* ------------------------------------------------- vocabulary of the claims

\* The control is inside, or just after, the invocation for batch[idx].
InCall == pc \in {"registering", "returned", "raised", "failed"}

WritesIn(ev) == SelectSeq(ev, LAMBDA e : e.op = "write_text")
DpkgIn(ev) == SelectSeq(ev, LAMBDA e : e.op = "dpkg --add-architecture")
\* The architectures dpkg was run for, in order.
ArchCalls(ev) == [k \in 1..Len(DpkgIn(ev)) |-> DpkgIn(ev)[k].file]
\* Every write of ev precedes every dpkg run of ev.
WritesFirst(ev) == \A j, k \in 1..Len(ev) : (ev[j].op = "write_text" /\ ev[k].op = "dpkg --add-architecture") => j < k

\* The file a record named n belongs in, as the specification words it.
TargetOf(n) == IF n = <<"default">> \/ n = <<"default-security">> THEN n \o <<".sources">> ELSE <<"craft-">> \o n \o <<".sources">>

\* The file of the current invocation.
Target == TargetOf(call.kw.name)

\* C1: Idempotence.  When an invocation that began without its target file
\* returned, and the same descriptor is invoked again right after it, the
\* first returned changed=True, the second returns changed=False, and the
\* target file holds the same text after both.
C1_Idempotence ==
    (/\ pc \in {"returned", "raised"}
     /\ prev.valid /\ prev.d = batch[idx] /\ prev.outcome = "returned"
     /\ Target \notin DOMAIN prev.files0)
    => /\ prev.ret = TRUE
       /\ pc = "returned" /\ ret = FALSE
       /\ Target \in DOMAIN files /\ Target \in DOMAIN prev.files
       /\ files[Target] = prev.files[Target]

C1_Witness ==
    /\ pc = "returned" /\ ret = FALSE
    /\ prev.valid /\ prev.d = batch[idx] /\ prev.outcome = "returned" /\ prev.ret
    /\ Target \notin DOMAIN prev.files0
    /\ batch[idx].type = "uca"

\* C2: Write only if different.  An invocation that returns reports False
\* and writes nothing exactly when the target file existed with the rendered
\* text; otherwise it writes the rendered text to the target, once, and
\* reports True.  Either way the target then holds the rendered text.
C2_WriteOnlyIfDifferent ==
    pc = "returned" =>
        LET same == Target \in DOMAIN files0 /\ files0[Target] = call.config
            W == WritesIn(EventsOf(idx))
        IN /\ (ret = FALSE) <=> same
           /\ same => (W = <<>> /\ files = files0)
           /\ ~same => (ret = TRUE /\ Len(W) = 1 /\ W[1].file = Target /\ W[1].text = call.config)
           /\ Target \in DOMAIN files /\ files[Target] = call.config

C2_Witness ==
    /\ pc = "returned" /\ ret = TRUE
    /\ Target \in DOMAIN files0 /\ files0[Target] # call.config
    /\ files[Target] = call.config

\* C3: Architecture registration.  An invocation that returns has run dpkg
\* once per declared architecture, in list order, when the descriptor is
\* Plain, the synchronize step reported "changed" and the declared list is
\* not empty, and not at all otherwise; at no point has an invocation run
\* dpkg outside that case, or before its file write.
C3_Registration ==
    InCall =>
        LET d == batch[idx]
            ev == EventsOf(idx)
            due == d.type = "apt" /\ call.changed /\ d.architectures \notin {None, Some(<<>>)}
        IN /\ pc = "returned" => ArchCalls(ev) = (IF due THEN Val(d.architectures) ELSE <<>>)
           /\ ArchCalls(ev) # <<>> => (due /\ WritesIn(ev) # <<>>)
           /\ WritesFirst(ev)

C3_Witness ==
    /\ pc = "returned"
    /\ ArchCalls(EventsOf(idx)) = << <<"amd64">>, <<"arm64">> >>
    /\ WritesIn(EventsOf(idx)) # <<>>

\* C4: Errors precede any effect.  An invocation that raised the PPA-format,
\* the cloud-compatibility or the keyring-missing error has written no
\* file, has left the sources directory as it found it and has not run
\* dpkg.
C4_ErrorsPrecedeEffects ==
    (pc \in {"raised", "failed"} /\ err \in {"AptPPAInstallError", "AptUCAInstallError", "AptGPGKeyringError"})
    => /\ files = files0
       /\ WritesIn(EventsOf(idx)) = <<>>
       /\ ArchCalls(EventsOf(idx)) = <<>>

C4_Witness ==
    /\ pc = "raised" /\ err = "AptGPGKeyringError"
    /\ batch[idx].type = "apt" /\ batch[idx].architectures = Some(<< <<"i386">> >>)
    /\ Target \in DOMAIN files

\* The text last written to file f by the events ev (f is written in ev).
LastWritten(ev, f) ==
    LET w == SelectSeq(ev, LAMBDA e : e.op = "write_text" /\ e.file = f)
    IN w[Len(w)].text

FilesWritten(ev) == {ev[k].file : k \in {j \in 1..Len(ev) : ev[j].op = "write_text"}}

\* The events of the descriptors before position i of this run.
EventsBefore(i) == SelectSeq(events, LAMBDA e : e.i < i)

\* Nothing was done for a descriptor after the one that failed.
NothingLater == \A k \in 1..Len(events) : events[k].i <= idx

\* C5, as claimed: when the batch failed at its k-th descriptor, nothing was
\* done for a later descriptor and every file written for a descriptor
\* before the k-th holds the text last written for those descriptors.
C5_Original ==
    pc = "failed" =>
        /\ NothingLater
        /\ \A f \in FilesWritten(EventsBefore(idx)) :
               f \in DOMAIN files /\ files[f] = LastWritten(EventsBefore(idx), f)

\* C5, amended: when the batch failed at its k-th descriptor, nothing was
\* done for a later descriptor, and nothing is rolled back: every file
\* written in this run holds the text last written to it by a descriptor up
\* to and including the k-th, every other file is as the run found it.
C5_FailFastNoRollback ==
    pc = "failed" =>
        /\ NothingLater
        /\ DOMAIN files = DOMAIN filesB \cup FilesWritten(events)
        /\ \A f \in DOMAIN files :
               files[f] = (IF f \in FilesWritten(events) THEN LastWritten(events, f) ELSE filesB[f])

C5_Witness ==
    /\ pc = "failed" /\ idx = 2 /\ err = "CalledProcessError"
    /\ FilesWritten(EventsBefore(idx)) # {}
    /\ FilesWritten(EventsBefore(idx)) = FilesWritten(EventsOf(idx))

\* What a descriptor is rendered to, whatever the sources directory holds.
Rendered(d) == Dispatch(d, <<>>)

\* Two descriptors of the batch name the same file and render different text.
Collides(b) ==
    \E i, j \in 1..Len(b) :
        /\ Rendered(b[i]).err = "" /\ Rendered(b[j]).err = ""
        /\ TargetOf(Rendered(b[i]).kw.name) = TargetOf(Rendered(b[j]).kw.name)
        /\ Rendered(b[i]).config # Rendered(b[j]).config

\* The batch result is the OR of the flags: a flag is True exactly when
\* its invocation wrote.
ResultIsOr == pc = "done" => (anyChanged <=> WritesIn(events) # <<>>)

\* C6, as claimed: a second run of a batch that ran through writes no file
\* and returns changed=False, collisions included.
C6_Original ==
    /\ (run >= 2 /\ prevRun.outcome = "done") => (WritesIn(events) = <<>> /\ (pc = "done" => ~anyChanged))
    /\ ResultIsOr

\* C6, amended: a second run of a batch that ran through, no two of whose
\* descriptors name the same file with different text, writes no file,
\* leaves the directory as it was and returns changed=False; the batch
\* result is the OR of the per-descriptor flags.
C6_RepeatedRunsNoOp ==
    /\ (run >= 2 /\ prevRun.outcome = "done" /\ ~Collides(batch))
       => (WritesIn(events) = <<>> /\ files = filesB /\ pc # "failed" /\ (pc = "done" => ~anyChanged))
    /\ ResultIsOr

C6_Witness ==
    /\ run = 2 /\ prevRun.outcome = "done" /\ prevRun.changed
    /\ pc = "done" /\ ~anyChanged /\ Len(batch) = 2 /\ batch[1] # batch[2]

\* C7: Registration failure propagates immediately.  When dpkg failed for
\* the i-th declared architecture the invocation has raised that error, and
\* dpkg was run exactly for the first i architectures, once each, in order.
C7_RegistrationFailure ==
    (pc \in {"raised", "failed"} /\ err = "CalledProcessError")
    => /\ archIdx \in 1..Len(Val(batch[idx].architectures))
       /\ ArchCalls(EventsOf(idx)) = SubSeq(Val(batch[idx].architectures), 1, archIdx)

C7_Witness ==
    /\ pc = "raised" /\ err = "CalledProcessError" /\ archIdx = 1
    /\ Len(Val(batch[idx].architectures)) = 2

Slashed(p) == IF p[Len(p)] = "/" THEN p ELSE Append(p, "/")

HasComponents(text) == \E k \in 1..Len(text) : text[k] = "Components: "

Unset(o) == o = None \/ o = Some(<<>>)

\* C9, as claimed: a Plain descriptor with a path gets the suite list
\* [path/] and a text without Components, whatever its components and
\* suites hold.
C9_Original ==
    (InCall /\ batch[idx].type = "apt" /\ ~Unset(batch[idx].path))
    => /\ call.called
       /\ call.kw.suites = <<Slashed(Val(batch[idx].path))>>
       /\ call.err = "" => ~HasComponents(call.config)

\* C9, amended: a Plain descriptor with a path gets the suite list [path/],
\* whatever its components and suites hold; its text has a Components
\* field exactly when the descriptor's component list is not empty.
C9_PathSuite ==
    (InCall /\ batch[idx].type = "apt" /\ ~Unset(batch[idx].path))
    => /\ call.called
       /\ call.kw.suites = <<Slashed(Val(batch[idx].path))>>
       /\ call.err = "" => (HasComponents(call.config) <=> ~Unset(batch[idx].components))

C9_Witness ==
    /\ pc = "returned"
    /\ batch[idx].path = Some(<<"dir", "/", "subdir">>)
    /\ ~Unset(batch[idx].suites) /\ Unset(batch[idx].components)
    /\ call.kw.suites = << <<"dir", "/", "subdir", "/">> >>
    /\ ~HasComponents(files[Target])

\* C10: Bare-repository rule.  A Plain descriptor with no path, no
\* components and no suites gets the suite list ["/"] and a text without
\* Components; one with no path and a non-empty suite list gets its own
\* suites, unchanged and in order.
C10_BareRepository ==
    (InCall /\ batch[idx].type = "apt" /\ Unset(batch[idx].path))
    => /\ (Unset(batch[idx].components) /\ Unset(batch[idx].suites))
          => /\ call.called
             /\ call.kw.suites = << <<"/">> >>
             /\ call.err = "" => ~HasComponents(call.config)
       /\ ~Unset(batch[idx].suites)
          => (call.called /\ call.kw.suites = Val(batch[idx].suites))

C10_Witness ==
    /\ pc = "returned"
    /\ batch[idx].type = "apt" /\ batch[idx].path = None
    /\ batch[idx].components = None /\ batch[idx].suites = Some(<<>>)
    /\ call.kw.suites = << <<"/">> >>
    /\ ~HasComponents(files[Target])

RECURSIVE SplitOn(_, _)
\* The pieces of text between the occurrences of the atom sep.
SplitOn(text, sep) ==
    IF \A k \in 1..Len(text) : text[k] # sep THEN <<text>>
    ELSE LET i == CHOOSE k \in 1..Len(text) : text[k] = sep /\ \A j \in 1..(k - 1) : text[j] # sep
         IN <<SubSeq(text, 1, i - 1)>> \o SplitOn(SubSeq(text, i + 1, Len(text)), sep)

\* The fields a record is to be rendered with, in order: name and values.
WireFields(kw) ==
    << <<"Types: ", IF Unset(kw.formats) THEN << <<"deb">> >> ELSE Val(kw.formats)>>,
       <<"URIs: ", <<kw.url>> >>,
       <<"Suites: ", kw.suites>> >>
    \o (IF Unset(kw.components) THEN <<>> ELSE << <<"Components: ", Val(kw.components)>> >>)
    \o << <<"Architectures: ", IF Unset(kw.architectures) THEN <<hostArch>> ELSE Val(kw.architectures)>>,
          <<"Signed-By: ", <<kw.keyring_path>> >> >>

\* C11: Rendered wire format.  The text rendered for a record is one line
\* per field, in the order Types, URIs, Suites, Components, Architectures,
\* Signed-By, without the Components line exactly when the component list
\* is empty or unset; a line is the field's name and its values separated
\* by single spaces in list order; Types is "deb" and Architectures the
\* host architecture when unset; Signed-By is the keyring path; every
\* line, the last one too, ends with one newline.
C11_WireFormat ==
    (InCall /\ call.called /\ call.err = "") =>
        LET pieces == SplitOn(call.config, "\n")
            fields == WireFields(call.kw)
        IN /\ Len(pieces) = Len(fields) + 1
           /\ pieces[Len(pieces)] = <<>>
           /\ \A k \in 1..Len(fields) :
                  /\ pieces[k] # <<>>
                  /\ pieces[k][1] = fields[k][1]
                  /\ SplitOn(Tail(pieces[k]), " ") = fields[k][2]

C11_Witness ==
    /\ pc = "returned" /\ ret
    /\ batch[idx].formats = None /\ batch[idx].components = Some(<<>>)
    /\ batch[idx].architectures = Some(<< <<"amd64">>, <<"arm64">> >>)
    /\ batch[idx].suites = Some(<< <<"test-suite1">>, <<"test-suite2">> >>)
    /\ files[Target] = call.config
    /\ Len(SplitOn(files[Target], "\n")) = 6

\* A PPA string of the shape owner/name.
WellFormedPpa(ppa) == Len(ppa) = 3 /\ ppa[2] = "/"

\* C12: PPA canonical form.  For a PPA descriptor owner/name on a host with
\* codename c the record has formats ["deb"], the Launchpad URL of
\* owner/name, suites [c], components ["main"], no architecture but the
\* host's, the keyring of the Launchpad key looked up by the PPA string, and
\* the name ppa-<owner>_<name>, hence the file
\* craft-ppa-<owner>_<name>.sources; nothing else of the descriptor shows
\* in the record or in the text, and dpkg is not run.
C12_PpaCanonicalForm ==
    (InCall /\ batch[idx].type = "ppa" /\ WellFormedPpa(batch[idx].ppa)) =>
        LET owner == batch[idx].ppa[1]
            name == batch[idx].ppa[3]
            keyring == get_keyring_path(get_launchpad_ppa_key_id(batch[idx].ppa))
            file == <<"craft-", "ppa-", owner, "_", name, ".sources">>
        IN /\ call.called
           /\ call.kw = [formats |-> Some(<< <<"deb">> >>),
                         url |-> <<"http://ppa.launchpad.net/", owner, "/", name, "/ubuntu">>,
                         suites |-> <<codename>>,
                         components |-> Some(<< <<"main">> >>),
                         architectures |-> None,
                         keyring_path |-> keyring,
                         name |-> <<"ppa-", owner, "_", name>>]
           /\ ArchCalls(EventsOf(idx)) = <<>>
           /\ call.err = "" =>
                  /\ call.config = <<"Types: ", "deb", "\n",
                                     "URIs: ", "http://ppa.launchpad.net/", owner, "/", name, "/ubuntu", "\n",
                                     "Suites: ">> \o codename \o <<"\n",
                                     "Components: ", "main", "\n",
                                     "Architectures: ">> \o hostArch \o <<"\n",
                                     "Signed-By: ">> \o keyring \o <<"\n">>
                  /\ file \in DOMAIN files /\ files[file] = call.config

C12_Witness ==
    /\ pc = "returned" /\ ret
    /\ batch[idx].type = "ppa" /\ batch[idx].ppa = <<"deadsnakes", "/", "ppa">>
    /\ batch[idx].architectures # None
    /\ codename = <<"jammy">>
    /\ <<"craft-", "ppa-", "deadsnakes", "_", "ppa", ".sources">> \in DOMAIN files

\* The invocation before the current one was for the same descriptor.
SameAsPrev == prev.valid /\ prev.d = batch[idx]

\* C13: No recovery of a failed registration by re-running.  An invocation
\* that raised in _add_architecture leaves the file it wrote, with the new
\* text; the invocation for the same descriptor right after it, and every
\* one after that, finds the file, returns "unchanged" and runs dpkg for no
\* architecture.
C13_NoRecoveryByRerun ==
    /\ (pc \in {"raised", "failed"} /\ err = "CalledProcessError")
       => (Target \in DOMAIN files /\ files[Target] = call.config /\ WritesIn(EventsOf(idx)) # <<>>)
    /\ (/\ pc \in {"registering", "returned", "raised"}
        /\ SameAsPrev
        /\ \/ prev.outcome = "raised" /\ prev.err = "CalledProcessError"
           \/ prev.outcome = "returned" /\ ~prev.ret)
       => /\ pc = "returned" /\ ret = FALSE
          /\ ArchCalls(EventsOf(idx)) = <<>>
          /\ files = prev.files
          /\ files[Target] = call.config

C13_Witness ==
    /\ pc = "returned" /\ ret = FALSE
    /\ SameAsPrev /\ prev.outcome = "raised" /\ prev.err = "CalledProcessError"
    /\ Len(ArchCalls(prev.events)) = 1
    /\ Len(Val(batch[idx].architectures)) = 2
    /\ ArchCalls(EventsOf(idx)) = <<>>

====
